---- MODULE Spec2Model ----
(***************************************************************************)
(* Model of youtube_api_grab_subs.py: runs of VideoGetter                  *)
(* (_get_search_videos, get_extreme_video_date, get_asr_caption_id,        *)
(* get_subtitles) over the directory DIR_NAME, against a channel served by *)
(* the YouTube client.                                                     *)
(*                                                                         *)
(* Time is counted in whole seconds, SecPerDay seconds to a day, so that a *)
(* timestamp has a date part and a time-of-day part as in the file-name    *)
(* prefix YYYYMMDD_HHMMSS; publishedAt has no fraction of a second.  A     *)
(* string that the code splits on "_" is the sequence of its fields, and   *)
(* every field is a number:                                                *)
(*   0..MaxDay          a date field      (YYYYMMDD)                       *)
(*   0..SecPerDay-1     a time field      (HHMMSS)                         *)
(*   >= 10              a piece of a video id or of any other name          *)
(* None is the empty sequence, and a value that may be None is <<value>>.   *)
(*                                                                         *)
(* The client is the code's collaborator.  search().list answers as its    *)
(* parameters ask: the channel's videos inside the (inclusive) bounds,     *)
(* newest first, a page of PageSize of them (maxResults), with a           *)
(* nextPageToken while more remain.  What it does with a pageToken that    *)
(* comes back with other bounds is not the code's to decide: both readings *)
(* are in the model (cursorKind).  Any call of the client may raise an     *)
(* HttpError instead of answering.                                         *)
(*                                                                         *)
(* Spec is the process: runs of VideoGetter, one after the other, over one *)
(* directory.  UnitSpec takes the functions one at a time (the scan, the   *)
(* parser, the choice of the track, the chain of recursive calls), each    *)
(* applied once to an input drawn from a bounded set.                      *)
(***************************************************************************)
EXTENDS Integers, Sequences, FiniteSets, TLC

VARIABLES
    channel,          \* the channel's videos, as the client serves them
    cursorKind,       \* how the client reads a pageToken sent with new bounds
    dir,              \* names of the *.csv files in DIR_NAME
    pc,               \* position of the process
    get_latest,       \* self.get_latest
    get_after_least,  \* self.get_after_least
    grabAfter,        \* self.GRAB_AFTER
    grabBefore,       \* self.GRAB_BEFORE
    page_token,       \* argument of the current _get_search_videos call
    response,         \* the page being processed
    idx,              \* position in response["items"]
    asr_caption_id,   \* local of the per-item loop
    subtitles,        \* local of the per-item loop
    runs,             \* number of VideoGetter constructions so far
    requests,         \* search requests sent by the current run, in order
    calls,            \* requests sent by the current run, per kind
    seen,             \* videos returned by a search page of the current run
    listed,           \* videos whose caption tracks were listed this run
    gotAsr,           \* videos whose get_asr_caption_id returned an id this run
    gotLines,         \* videos whose get_subtitles returned >= 1 line this run
    written,          \* file names written by the current run
    dirAtStart,       \* dir when the current run was constructed
    fault,            \* last HttpError raised by the client in this run
    exc,              \* the exception that ended the run, "" for none
    prev,             \* how the previous run ended, and what it had done
    unit              \* a single function under test: its input and result

procVars == <<channel, cursorKind, dir, pc, get_latest, get_after_least,
              grabAfter, grabBefore, page_token, response, idx, asr_caption_id,
              subtitles, runs, requests, calls, seen, listed, gotAsr, gotLines,
              written, dirAtStart, fault, exc, prev>>

vars == <<procVars, unit>>

-----------------------------------------------------------------------------
(* Bounds of the model *)

NumVideos == 3
MaxDay == 3
SecPerDay == 2
PageSize == 2
MaxRuns == 3
MaxFiles == 3
MaxBlocks == 3
MaxTracks == 3
MaxChain == 4

Videos == 1..NumVideos
None == <<>>

-----------------------------------------------------------------------------
(* Timestamps and their textual forms *)

\* strftime("%Y%m%d_%H%M%S"): the two fields of the file-name prefix
StrfStamp(t) == <<t \div SecPerDay, t % SecPerDay>>

\* strftime("%Y-%m-%dT%H:%M:%SZ"): the RFC 3339 text sent to the client
StrfRfc(t) == <<t \div SecPerDay, t % SecPerDay>>

\* the instant an RFC 3339 text denotes (the client's reading of a bound)
RfcInstant(s) == s[1] * SecPerDay + s[2]

\* pd.to_datetime(date, format="%Y%m%d_%H%M%S"): does the text match the format
StampParses(fields) ==
    /\ Len(fields) = 2
    /\ fields[1] \in 0..MaxDay
    /\ fields[2] \in 0..(SecPerDay - 1)

\* the instant read with the format "%Y%m%d" alone: the time of day is lost
StampInstant_DateOnly(fields) == fields[1] * SecPerDay

\* the instant pd.to_datetime returns for a text that matches
StampInstant(fields) == fields[1] * SecPerDay + fields[2]

\* class attributes GRAB_AFTER / GRAB_BEFORE: midnights of two days
GRAB_AFTER == <<1, 0>>
GRAB_BEFORE == <<2, 0>>

-----------------------------------------------------------------------------
(* The channel *)

\* a video id; the id of an even video contains an underscore
VideoId(v) == IF v % 2 = 0 THEN <<10 + v, 20 + v>> ELSE <<10 + v>>

\* a line of an SRT body, by what the pattern of get_subtitles reads in it:
\*   raw    - the line
\*   tail   - the digits the line ends with ("" when it ends with none)
\*   timing - <<start, end>> when the whole line is "<start> --> <end>" with
\*            start and end made of the characters [\d+|:,], else <<>>
Num(n) == [raw |-> n, tail |-> n, timing |-> <<>>]
Timing(l, s, e, t) == [raw |-> l, tail |-> t, timing |-> <<s, e>>]
Text(t) == [raw |-> t, tail |-> "", timing |-> <<>>]

Cue(n, txt) ==
    <<Num(n), Timing("00:01 --> 00:02", "00:01", "00:02", "02"), Text(txt)>>

\* what the client holds for the captions of video v: its tracks, each with
\* the id and trackKind that captions().list reports and the body that
\* captions().download returns for it, the body as the blocks that
\* split("\n\n") yields and a block as its lines after strip()
CaptionsOf(v, kind) ==
    CASE kind = "manual" ->
            << [id |-> 10 * v + 1, trackKind |-> "standard",
                body |-> << Cue("1", "typed") >>] >>
      [] kind = "asr" ->
            << [id |-> 10 * v + 1, trackKind |-> "standard",
                body |-> << Cue("1", "typed") >>],
               [id |-> 10 * v + 2, trackKind |-> "ASR",
                body |-> << Cue("1", "hello"),
                            <<>>,
                            <<Num("2"), Text("no timing")>>,
                            Cue("3", "world") >>] >>
      [] kind = "asr_blank" ->
            << [id |-> 10 * v + 2, trackKind |-> "ASR",
                body |-> << <<Text("oops")>> >>] >>

CaptionKinds == {"manual", "asr", "asr_blank"}

\* the smaller of two numbers
Least(a, b) == IF a < b THEN a ELSE b

\* publish times of the channel's videos, oldest first, laid out around the
\* default window [GRAB_AFTER, GRAB_BEFORE]
Timelines ==
    LET ga == RfcInstant(GRAB_AFTER)
        gb == RfcInstant(GRAB_BEFORE)
        end == (MaxDay + 1) * SecPerDay - 1
    IN { \* all inside the default window
         [v \in Videos |-> Least(ga + v - 1, gb)],
         \* the newest inside the default window, the others before it
         [v \in Videos |->
            IF v = NumVideos THEN ga + 1 ELSE Least(v - 1, ga - 1)],
         \* the oldest inside the default window, the others after it
         [v \in Videos |-> IF v = 1 THEN ga + 1 ELSE Least(gb + v - 1, end)],
         \* one before the window, the others in the same second on its edge
         [v \in Videos |-> IF v = 1 THEN ga - 1 ELSE gb] }

Channels ==
    { [v \in Videos |-> [publishedAt |-> tl[v], kind |-> k[v]]] :
        tl \in Timelines, k \in [Videos -> CaptionKinds] }

-----------------------------------------------------------------------------
(* The client's search().list *)

RECURSIVE SortDesc(_, _)
\* the videos of set S as a sequence, newest first (order="date");
\* videos of the same second come in descending video number
SortDesc(ch, S) ==
    IF S = {} THEN <<>>
    ELSE LET top == CHOOSE v \in S :
                        \A w \in S :
                            \/ ch[w].publishedAt < ch[v].publishedAt
                            \/ ch[w].publishedAt = ch[v].publishedAt /\ w <= v
         IN <<top>> \o SortDesc(ch, S \ {top})

\* publishedAfter: created at or after; publishedBefore: created before or at
InWindow(t, after, before) ==
    /\ after = None \/ t >= RfcInstant(after)
    /\ before = None \/ t <= RfcInstant(before)

SearchResults(ch, after, before) ==
    SortDesc(ch, {v \in Videos : InWindow(ch[v].publishedAt, after, before)})

\* A pageToken is the cursor the client handed out: the offset of the next
\* page and the bounds of the request that produced it.  When the token comes
\* back with other bounds, a client of kind "offset" applies the offset to the
\* results of the new bounds, a client of kind "snapshot" to those of the
\* bounds the token was issued for.
SearchList(ch, kind, after, before, token) ==
    LET old == token # None /\ kind = "snapshot"
        a   == IF old THEN token[1].after ELSE after
        b   == IF old THEN token[1].before ELSE before
        off == IF token = None THEN 0 ELSE token[1].offset
        all == SearchResults(ch, a, b)
        hi  == IF off + PageSize < Len(all) THEN off + PageSize ELSE Len(all)
    IN [items |-> SubSeq(all, off + 1, hi),
        nextPageToken |->
            IF off + PageSize < Len(all)
            THEN << [offset |-> off + PageSize, after |-> a, before |-> b] >>
            ELSE None]

\* the tracks captions().list reports for a video
CaptionsList(ch, v) ==
    [i \in 1..Len(CaptionsOf(v, ch[v].kind)) |->
        [id |-> CaptionsOf(v, ch[v].kind)[i].id,
         trackKind |-> CaptionsOf(v, ch[v].kind)[i].trackKind]]

\* the body captions().download returns for a track id
CaptionsDownload(ch, id) ==
    LET v  == id \div 10
        ts == CaptionsOf(v, ch[v].kind)
        i  == CHOOSE j \in 1..Len(ts) : ts[j].id = id
    IN ts[i].body

\* statuses of the HttpError the client may raise
HttpStatuses == {403, 500}

-----------------------------------------------------------------------------
(* The program's functions *)

Min(S) == CHOOSE x \in S : \A y \in S : x <= y
Max(S) == CHOOSE x \in S : \A y \in S : x >= y

\* the name cut at its last underscore, file_name.rsplit("_", 1)[0]: the
\* timestamp only when the video id holds no underscore
FileDate_FromRight(file_name) == SubSeq(file_name, 1, Len(file_name) - 1)

\* "_".join(file_name.split("_", 2)[:2])
FileDate(file_name) ==
    SubSeq(file_name, 1, IF Len(file_name) < 2 THEN Len(file_name) ELSE 2)

\* get_extreme_video_date raises ValueError out of pd.to_datetime
ScanRaises(d) == \E f \in d : ~StampParses(FileDate(f))

\* get_extreme_video_date, when it does not raise: None or <<dict>>
get_extreme_video_date(d) ==
    LET dates == {StampInstant(FileDate(f)) : f \in d}
    IN IF dates # {}
       THEN << [last |-> Max(dates), oldest |-> Min(dates)] >>
       ELSE None

\* ResolveWindow with the bounds of backfill taken from the wrong end
ResolveWindow_WrongEnd(gl, gal, ga, gb, d) ==
    LET scanned == get_extreme_video_date(d)
        bad     == (gl \/ gal) /\ (ScanRaises(d) \/ scanned = None)
    IN IF bad THEN [raised |-> "ValueError", after |-> ga, before |-> gb]
       ELSE IF gal THEN [raised |-> "", after |-> None,
                         before |-> StrfRfc(scanned[1].last)]
       ELSE IF gl THEN [raised |-> "", after |-> StrfRfc(scanned[1].last),
                        before |-> None]
       ELSE [raised |-> "", after |-> ga, before |-> gb]

\* ResolveWindow without lines 83 and 88: the other bound is not cleared
ResolveWindow_KeepOther(gl, gal, ga, gb, d) ==
    LET scanned == get_extreme_video_date(d)
        bad     == (gl \/ gal) /\ (ScanRaises(d) \/ scanned = None)
    IN IF bad THEN [raised |-> "ValueError", after |-> ga, before |-> gb]
       ELSE IF gal THEN [raised |-> "", after |-> ga,
                         before |-> StrfRfc(scanned[1].oldest)]
       ELSE IF gl THEN [raised |-> "", after |-> StrfRfc(scanned[1].last),
                        before |-> gb]
       ELSE [raised |-> "", after |-> ga, before |-> gb]

\* ResolveWindow with the two if statements in the other order: with both
\* flags set the bounds of get_latest are the ones left
ResolveWindow_LatestLast(gl, gal, ga, gb, d) ==
    LET scanned == get_extreme_video_date(d)
        raised  == IF ~(gl \/ gal) THEN ""
                   ELSE IF ScanRaises(d) THEN "ValueError"
                   ELSE IF scanned = None THEN "TypeError"
                   ELSE ""
        a1 == IF gal THEN None ELSE ga
        b1 == IF gal THEN StrfRfc(scanned[1].oldest) ELSE gb
        a2 == IF gl THEN StrfRfc(scanned[1].last) ELSE a1
        b2 == IF gl THEN None ELSE b1
    IN IF raised # ""
       THEN [raised |-> raised, after |-> ga, before |-> gb]
       ELSE [raised |-> "", after |-> a2, before |-> b2]

\* the head of _get_search_videos: the bounds it leaves in self.GRAB_AFTER and
\* self.GRAB_BEFORE, or the exception it raises
ResolveWindow(gl, gal, ga, gb, d) ==
    LET scanned == get_extreme_video_date(d)
        raised  == IF ~(gl \/ gal) THEN ""
                   ELSE IF ScanRaises(d) THEN "ValueError"
                   ELSE IF scanned = None THEN "TypeError"
                   ELSE ""
        a1 == IF gl THEN StrfRfc(scanned[1].last) ELSE ga
        b1 == IF gl THEN None ELSE gb
        a2 == IF gal THEN None ELSE a1
        b2 == IF gal THEN StrfRfc(scanned[1].oldest) ELSE b1
    IN IF raised # ""
       THEN [raised |-> raised, after |-> ga, before |-> gb]
       ELSE [raised |-> "", after |-> a2, before |-> b2]

RECURSIVE FirstAsr(_, _)
FirstAsr(items, i) ==
    IF i > Len(items) THEN None
    ELSE IF items[i].trackKind = "ASR" THEN <<items[i].id>>
    ELSE FirstAsr(items, i + 1)

\* the loop of lines 154-157 without the test of line 156: the first track
get_asr_caption_id_AnyTrack(items) ==
    IF items = <<>> THEN None ELSE <<items[1].id>>

\* the loop of lines 154-157 without the return inside it: the last ASR track
get_asr_caption_id_LastAsr(items) ==
    LET asr == {i \in 1..Len(items) : items[i].trackKind = "ASR"}
    IN IF asr = {} THEN None ELSE <<items[Max(asr)].id>>

\* get_asr_caption_id on the listing's items: <<id>> or None
get_asr_caption_id(items) == FirstAsr(items, 1)

\* re.search(pattern, block): the leftmost place where a line ends with
\* digits, the next line is a timing line and a further line follows
MatchAt(block, i) ==
    /\ i + 2 <= Len(block)
    /\ block[i].tail # ""
    /\ block[i + 1].timing # <<>>

SearchBlock(block) ==
    LET hits == {i \in 1..Len(block) : MatchAt(block, i)}
    IN IF hits = {} THEN None
       ELSE LET i == Min(hits)
            IN << [idx |-> block[i].tail,
                   start |-> block[i + 1].timing[1],
                   end |-> block[i + 1].timing[2],
                   text |-> block[i + 2].raw] >>

RECURSIVE ParseFrom(_, _)
ParseFrom(blocks, i) ==
    IF i > Len(blocks) THEN <<>>
    ELSE IF blocks[i] = <<>> THEN ParseFrom(blocks, i + 1)
    ELSE SearchBlock(blocks[i]) \o ParseFrom(blocks, i + 1)

\* the try body of get_subtitles on a downloaded body
ParseSrt(blocks) == ParseFrom(blocks, 1)

\* the except clause without the status test: every HttpError gives []
OnDownloadError_Swallow(status) == "empty"

\* the except clause of get_subtitles: "empty" returns [], "raise" re-raises
OnDownloadError(status) == IF status = 403 THEN "empty" ELSE "raise"

\* the file name of line 139, as its fields
FileName(uploaded, video_id) == StrfStamp(uploaded) \o video_id

FileOf(ch, v) == FileName(ch[v].publishedAt, VideoId(v))

\* a file somebody put into DIR_NAME whose name carries no timestamp
ForeignFile == <<99>>

-----------------------------------------------------------------------------
(* The process *)

Running == {"enter", "search", "item", "download", "save"}
Ended == {"idle", "done", "raised", "interrupted"}

NoCalls == [search |-> 0, list |-> 0, download |-> 0]
\* no function is under test while the process runs
NoUnit == [fn |-> ""]

NoPrev == [end |-> "idle", get_latest |-> FALSE, get_after_least |-> FALSE,
           dirAtStart |-> {}, clean |-> TRUE, first |-> None]

\* no VideoGetter has been constructed yet, DIR_NAME is empty
Idle ==
    /\ dir = {}
    /\ pc = "idle"
    /\ get_latest = FALSE
    /\ get_after_least = FALSE
    /\ grabAfter = GRAB_AFTER
    /\ grabBefore = GRAB_BEFORE
    /\ page_token = None
    /\ response = [items |-> <<>>, nextPageToken |-> None]
    /\ idx = 1
    /\ asr_caption_id = None
    /\ subtitles = <<>>
    /\ runs = 0
    /\ requests = <<>>
    /\ calls = NoCalls
    /\ seen = {}
    /\ listed = {}
    /\ gotAsr = {}
    /\ gotLines = {}
    /\ written = {}
    /\ dirAtStart = {}
    /\ fault = None
    /\ exc = ""
    /\ prev = NoPrev

Init ==
    /\ channel \in Channels
    /\ cursorKind \in {"offset", "snapshot"}
    /\ Idle
    /\ unit = NoUnit

\* VideoGetter(client, get_after_least, get_latest): __init__ up to the call
\* of _get_search_videos.  A new instance reads the class attributes.
Construct(gal, gl) ==
    /\ pc \in Ended
    /\ runs < MaxRuns
    /\ runs' = runs + 1
    /\ prev' = [end |-> pc, get_latest |-> get_latest,
                get_after_least |-> get_after_least, dirAtStart |-> dirAtStart,
                clean |-> (fault = None),
                first |-> IF requests = <<>> THEN None ELSE <<requests[1]>>]
    /\ get_latest' = gl
    /\ get_after_least' = gal
    /\ grabAfter' = GRAB_AFTER
    /\ grabBefore' = GRAB_BEFORE
    /\ page_token' = None
    /\ response' = [items |-> <<>>, nextPageToken |-> None]
    /\ idx' = 1
    /\ asr_caption_id' = None
    /\ subtitles' = <<>>
    /\ requests' = <<>>
    /\ calls' = NoCalls
    /\ seen' = {}
    /\ listed' = {}
    /\ gotAsr' = {}
    /\ gotLines' = {}
    /\ written' = {}
    /\ dirAtStart' = dir
    /\ fault' = None
    /\ exc' = ""
    /\ pc' = "enter"
    /\ UNCHANGED <<channel, cursorKind, dir, unit>>

\* lines 79-89: the bounds of this call of _get_search_videos
Enter ==
    /\ pc = "enter"
    /\ LET w == ResolveWindow(get_latest, get_after_least,
                              grabAfter, grabBefore, dir)
       IN /\ grabAfter' = w.after
          /\ grabBefore' = w.before
          /\ exc' = w.raised
          /\ pc' = IF w.raised # "" THEN "raised" ELSE "search"
    /\ UNCHANGED <<channel, cursorKind, dir, get_latest, get_after_least,
                   page_token, response, idx, asr_caption_id, subtitles, runs,
                   requests, calls, seen, listed, gotAsr, gotLines, written,
                   dirAtStart, fault, prev, unit>>

\* the publishedAfter, publishedBefore and pageToken of lines 98-102
ThisRequest ==
    [after |-> grabAfter, before |-> grabBefore, pageToken |-> page_token]

\* lines 91-105: the search request, answered with a page
Search ==
    /\ pc = "search"
    /\ requests' = Append(requests, ThisRequest)
    /\ calls' = [calls EXCEPT !.search = @ + 1]
    /\ response' =
          SearchList(channel, cursorKind, grabAfter, grabBefore, page_token)
    /\ seen' = seen \cup {response'.items[i] : i \in 1..Len(response'.items)}
    /\ idx' = 1
    /\ pc' = "item"
    /\ UNCHANGED <<channel, cursorKind, dir, get_latest, get_after_least,
                   grabAfter, grabBefore, page_token, asr_caption_id,
                   subtitles, runs, listed, gotAsr, gotLines, written,
                   dirAtStart, fault, exc, prev, unit>>

\* lines 91-105: the search request, answered with an HttpError
SearchFails(status) ==
    /\ pc = "search"
    /\ requests' = Append(requests, ThisRequest)
    /\ calls' = [calls EXCEPT !.search = @ + 1]
    /\ fault' = << [status |-> status, call |-> "search", video |-> 0] >>
    /\ exc' = "HttpError"
    /\ pc' = "raised"
    /\ UNCHANGED <<channel, cursorKind, dir, get_latest, get_after_least,
                   grabAfter, grabBefore, page_token, response, idx,
                   asr_caption_id, subtitles, runs, seen, listed, gotAsr,
                   gotLines, written, dirAtStart, prev, unit>>

Item == response.items[idx]

\* lines 107-118: the next item, its caption tracks listed
ListTracks ==
    /\ pc = "item"
    /\ idx <= Len(response.items)
    /\ calls' = [calls EXCEPT !.list = @ + 1]
    /\ asr_caption_id' = get_asr_caption_id(CaptionsList(channel, Item))
    /\ IF asr_caption_id' = None
       THEN idx' = idx + 1 /\ pc' = "item"
       ELSE idx' = idx /\ pc' = "download"
    /\ subtitles' = <<>>
    /\ listed' = listed \cup {Item}
    /\ gotAsr' = IF asr_caption_id' # None THEN gotAsr \cup {Item} ELSE gotAsr
    /\ UNCHANGED <<channel, cursorKind, dir, get_latest, get_after_least,
                   grabAfter, grabBefore, page_token, response, runs,
                   requests, seen, gotLines, written, dirAtStart, fault, exc,
                   prev, unit>>

\* line 153 raises: get_asr_caption_id catches nothing
ListFails(status) ==
    /\ pc = "item"
    /\ idx <= Len(response.items)
    /\ calls' = [calls EXCEPT !.list = @ + 1]
    /\ listed' = listed \cup {Item}
    /\ fault' = << [status |-> status, call |-> "list", video |-> Item] >>
    /\ exc' = "HttpError"
    /\ pc' = "raised"
    /\ UNCHANGED <<channel, cursorKind, dir, get_latest, get_after_least,
                   grabAfter, grabBefore, page_token, response, idx,
                   asr_caption_id, subtitles, runs, requests, seen, gotAsr,
                   gotLines, written, dirAtStart, prev, unit>>

\* lines 120, 168-180: the track downloaded and parsed
Download ==
    /\ pc = "download"
    /\ calls' = [calls EXCEPT !.download = @ + 1]
    /\ subtitles' = ParseSrt(CaptionsDownload(channel, asr_caption_id[1]))
    /\ gotLines' = IF subtitles' # <<>> THEN gotLines \cup {Item} ELSE gotLines
    /\ pc' = "save"
    /\ UNCHANGED <<channel, cursorKind, dir, get_latest, get_after_least,
                   grabAfter, grabBefore, page_token, response, idx,
                   asr_caption_id, runs, requests, seen, listed, gotAsr,
                   written, dirAtStart, fault, exc, prev, unit>>

\* lines 182-185: the download raises HttpError
DownloadFails(status) ==
    /\ pc = "download"
    /\ calls' = [calls EXCEPT !.download = @ + 1]
    /\ fault' = << [status |-> status, call |-> "download", video |-> Item] >>
    /\ IF OnDownloadError(status) = "empty"
       THEN subtitles' = <<>> /\ pc' = "save" /\ exc' = exc
       ELSE subtitles' = subtitles /\ pc' = "raised" /\ exc' = "HttpError"
    /\ UNCHANGED <<channel, cursorKind, dir, get_latest, get_after_least,
                   grabAfter, grabBefore, page_token, response, idx,
                   asr_caption_id, runs, requests, seen, listed, gotAsr,
                   gotLines, written, dirAtStart, prev, unit>>

\* line 135 never passing: the rows are kept in memory, no file is written
ShouldSave_Never(video_subs) == FALSE

\* line 135 without its test: a file is written for any video
ShouldSave_Always(video_subs) == TRUE

\* does line 135 let the video's rows be written
ShouldSave(video_subs) == video_subs # <<>>

\* the directory made anew for the file: the files before it are gone
ToCsv_Truncating(d, f) == {f}

\* lines 138-142: DIR_NAME after to_csv wrote the file named f
ToCsv(d, f) == d \cup {f}

\* lines 121-142: the rows built and, when there are any, the file written
Save ==
    /\ pc = "save"
    /\ IF ShouldSave(subtitles)
       THEN LET f == FileName(channel[Item].publishedAt, VideoId(Item))
            IN /\ dir' = ToCsv(dir, f)
               /\ written' = written \cup {f}
       ELSE UNCHANGED <<dir, written>>
    /\ idx' = idx + 1
    /\ pc' = "item"
    /\ UNCHANGED <<channel, cursorKind, get_latest, get_after_least,
                   grabAfter, grabBefore, page_token, response,
                   asr_caption_id, subtitles, runs, requests, calls, seen,
                   listed, gotAsr, gotLines, dirAtStart, fault, exc, prev,
                   unit>>

\* lines 144-146: after the last item, the next page or the end
PageEnd ==
    /\ pc = "item"
    /\ idx > Len(response.items)
    /\ IF response.nextPageToken # None
       THEN page_token' = response.nextPageToken /\ pc' = "enter"
       ELSE page_token' = page_token /\ pc' = "done"
    /\ UNCHANGED <<channel, cursorKind, dir, get_latest, get_after_least,
                   grabAfter, grabBefore, response, idx, asr_caption_id,
                   subtitles, runs, requests, calls, seen, listed, gotAsr,
                   gotLines, written, dirAtStart, fault, exc, prev, unit>>

\* the process is killed between two steps
Interrupt ==
    /\ pc \in Running
    /\ pc' = "interrupted"
    /\ UNCHANGED <<channel, cursorKind, dir, get_latest, get_after_least,
                   grabAfter, grabBefore, page_token, response, idx,
                   asr_caption_id, subtitles, runs, requests, calls, seen,
                   listed, gotAsr, gotLines, written, dirAtStart, fault, exc,
                   prev, unit>>

\* between two runs somebody puts a file without a timestamp into DIR_NAME
DropForeignFile ==
    /\ pc \in Ended
    /\ runs < MaxRuns
    /\ ForeignFile \notin dir
    /\ dir' = dir \cup {ForeignFile}
    /\ UNCHANGED <<channel, cursorKind, pc, get_latest, get_after_least,
                   grabAfter, grabBefore, page_token, response, idx,
                   asr_caption_id, subtitles, runs, requests, calls, seen,
                   listed, gotAsr, gotLines, written, dirAtStart, fault, exc,
                   prev, unit>>

Next ==
    \/ \E gal \in BOOLEAN, gl \in BOOLEAN : Construct(gal, gl)
    \/ Enter
    \/ Search
    \/ \E status \in HttpStatuses : SearchFails(status)
    \/ ListTracks
    \/ \E status \in HttpStatuses : ListFails(status)
    \/ Download
    \/ \E status \in HttpStatuses : DownloadFails(status)
    \/ Save
    \/ PageEnd
    \/ Interrupt
    \/ DropForeignFile

Spec == Init /\ [][Next]_vars

-----------------------------------------------------------------------------
(* The functions on their own, each applied to an input of a bounded set *)

\* Python's recursion limit, scaled: the number of frames of
\* _get_search_videos that may be active at once
RecursionLimit == 3

Instants == 0..((MaxDay + 1) * SecPerDay - 1)

\* a video the crawler persisted: what line 139 builds the file name from,
\* any upload instant with an id without and an id with an underscore
Persisted == {[uploaded |-> t, video_id |-> VideoId(v)] :
                 t \in Instants, v \in Videos \cap {1, 2}}

RECURSIVE SetsUpTo(_, _)
\* the subsets of S with at most n elements
SetsUpTo(S, n) ==
    IF n = 0 THEN {{}}
    ELSE LET R == SetsUpTo(S, n - 1)
         IN R \cup {T \cup {x} : T \in R, x \in S}

\* DIR_NAME after the videos of set P were persisted
DirOf(P) == {FileName(p.uploaded, p.video_id) : p \in P}

\* a line that is not a number but ends with digits, like "x7"
Tagged(t, d) == [raw |-> t, tail |-> d, timing |-> <<>>]

TimingLine == Timing("00:01 --> 00:02", "00:01", "00:02", "02")

\* blocks of a payload, after split("\n\n") and strip()
Blocks ==
    { Cue("1", "hello"),
      Cue("2", "world"),
      <<>>,
      <<Text("oops")>>,
      <<Num("3"), Text("no timing")>>,
      <<Num("4"), TimingLine>>,
      <<Num("5"), TimingLine, Text("first"), Text("second")>>,
      <<Text("junk"), Num("6"), TimingLine, Text("late")>>,
      <<Tagged("x7", "7"), TimingLine, Text("tagged")>> }

RECURSIVE SeqsUpTo(_, _)
\* the sequences over S with at most n elements
SeqsUpTo(S, n) ==
    IF n = 0 THEN {<<>>}
    ELSE LET R == SeqsUpTo(S, n - 1)
         IN R \cup {Append(q, x) : q \in R, x \in S}

TrackKinds == {"standard", "ASR", "forced"}

\* the items of a captions().list response: distinct ids, any kinds
Listings ==
    {[i \in 1..Len(k) |-> [id |-> 10 + i, trackKind |-> k[i]]] :
        k \in SeqsUpTo(TrackKinds, MaxTracks)}

\* search().list of a client whose results make a chain of n pages; page k
\* carries the cursor <<k + 1>> while k < n
ChainList(n, token) ==
    LET k == IF token = None THEN 1 ELSE token[1]
    IN [items |-> <<>>,
        nextPageToken |-> IF k < n THEN <<k + 1>> ELSE None]

\* the function fn about to be applied to arg
Apply(fn, arg) ==
    [fn |-> fn, arg |-> arg, ret |-> None, raised |-> "", done |-> FALSE,
     page_token |-> None]

UnitInit ==
    /\ channel = CHOOSE ch \in Channels : TRUE
    /\ cursorKind = "offset"
    /\ Idle
    /\ \/ \E P \in SetsUpTo(Persisted, MaxFiles) : unit = Apply("scan", P)
       \/ \E b \in SeqsUpTo(Blocks, MaxBlocks) : unit = Apply("parse", b)
       \/ \E items \in Listings : unit = Apply("pick", items)
       \/ \E n \in 1..MaxChain : unit = Apply("paginate", n)

\* lines 64-72: get_extreme_video_date() over the persisted files
Scan ==
    /\ unit.fn = "scan"
    /\ ~unit.done
    /\ LET d == DirOf(unit.arg)
       IN unit' = [unit EXCEPT
                     !.done = TRUE,
                     !.raised = IF ScanRaises(d) THEN "ValueError" ELSE "",
                     !.ret = IF ScanRaises(d) THEN None
                             ELSE get_extreme_video_date(d)]
    /\ UNCHANGED procVars

\* lines 172-180: the body of get_subtitles on a payload
Parse ==
    /\ unit.fn = "parse"
    /\ ~unit.done
    /\ unit' = [unit EXCEPT !.done = TRUE, !.ret = ParseSrt(unit.arg)]
    /\ UNCHANGED procVars

\* lines 154-158: get_asr_caption_id on a listing
Pick ==
    /\ unit.fn = "pick"
    /\ ~unit.done
    /\ unit' = [unit EXCEPT !.done = TRUE,
                            !.ret = get_asr_caption_id(unit.arg)]
    /\ UNCHANGED procVars

\* lines 74, 91-105, 144-146: one call of _get_search_videos(page_token) on a
\* chain of pages without items.  unit.ret holds the pageToken of every
\* request sent; each request was sent by a frame that is still active, the
\* next call being made from inside the current one.
Paginate ==
    /\ unit.fn = "paginate"
    /\ ~unit.done
    /\ IF Len(unit.ret) >= RecursionLimit
       THEN unit' = [unit EXCEPT !.done = TRUE, !.raised = "RecursionError"]
       ELSE LET resp == ChainList(unit.arg, unit.page_token)
            IN unit' = [unit EXCEPT
                          !.ret = Append(@, unit.page_token),
                          !.page_token = resp.nextPageToken,
                          !.done = (resp.nextPageToken = None)]
    /\ UNCHANGED procVars

UnitNext ==
    \/ Scan
    \/ Parse
    \/ Pick
    \/ Paginate

UnitSpec == UnitInit /\ [][UnitNext]_vars

-----------------------------------------------------------------------------
(* Notions the properties are stated with *)

\* the video has an ASR track whose body parses to at least one line
HasCaptions(ch, v) ==
    LET id == get_asr_caption_id(CaptionsList(ch, v))
    IN id # None /\ ParseSrt(CaptionsDownload(ch, id[1])) # <<>>

Backfill(gal, gl) == gal
CatchUp(gal, gl) == gl /\ ~gal
Initial(gal, gl) == ~gl /\ ~gal

BothSet(r) == r.after # None /\ r.before # None

\* the client raised an HttpError other than forbidden in this run
Fatal == fault # None /\ fault[1].status # 403

\* the client raised forbidden for a video's captions in this run
ForbiddenCaptions ==
    /\ fault # None
    /\ fault[1].status = 403
    /\ fault[1].call \in {"list", "download"}

-----------------------------------------------------------------------------
(* C1 *)

\* C1: resumability.  When a run in backfill or catch-up mode is interrupted
\* and the next run, in the same mode, runs to completion (the client raising
\* no error in either), the directory holds a file for every channel video
\* inside the interrupted run's window that has an ASR track with at least one
\* parsed line.
C1_Resumable ==
    ( /\ pc = "done"
      /\ fault = None
      /\ prev.end = "interrupted"
      /\ prev.clean
      /\ prev.first # None
      /\ prev.get_latest = get_latest
      /\ prev.get_after_least = get_after_least
      /\ ~Initial(get_after_least, get_latest) )
    => \A v \in Videos :
          ( /\ InWindow(channel[v].publishedAt,
                       prev.first[1].after, prev.first[1].before)
            /\ HasCaptions(channel, v) )
          => FileOf(channel, v) \in dir

-----------------------------------------------------------------------------
(* C2 *)

\* C2: after a run that completes, every video returned by one of its search
\* pages had its tracks listed, and its file was written by the run if and
\* only if get_asr_caption_id returned a track id for it and get_subtitles
\* returned at least one line.
C2_FileIffCaptions ==
    pc = "done" =>
        \A v \in seen :
            /\ v \in listed
            /\ FileOf(channel, v) \in written
                 <=> (v \in gotAsr /\ v \in gotLines)

\* a completed run that met a video with lines, one without an ASR track and
\* one whose ASR track gave no line
C2_Witness ==
    /\ pc = "done"
    /\ \E v \in seen : FileOf(channel, v) \in written
    /\ \E v \in seen : v \notin gotAsr
    /\ \E v \in seen : v \in gotAsr /\ v \notin gotLines

-----------------------------------------------------------------------------
(* C3 *)

\* C3: a forbidden (403) HttpError raised while a video's caption tracks are
\* listed or its track is downloaded does not propagate: no exception ends
\* the run and no file is written for that video.
C3_ForbiddenIsNoCaptions ==
    ForbiddenCaptions =>
        /\ exc = ""
        /\ pc # "raised"

-----------------------------------------------------------------------------
(* C4 *)

\* C4: an HttpError other than forbidden ends the run with that exception,
\* and from then on the run sends no request and writes no file, and the
\* files it wrote stay in the directory.
C4_FatalAborts ==
    /\ [](Fatal => pc = "raised" /\ exc = "HttpError")
    /\ [][(Fatal /\ runs' = runs) =>
            /\ calls' = calls
            /\ requests' = requests
            /\ written' = written
            /\ written \subseteq dir']_vars

\* a run ended by a non-forbidden error after it had written a file
C4_Witness ==
    Fatal /\ pc = "raised" /\ written # {} /\ fault[1].call = "download"

-----------------------------------------------------------------------------
(* C5 *)

-----------------------------------------------------------------------------
(* C6 *)

\* C6 as claimed: no search request of any run has both publishedAfter and
\* publishedBefore set.
C6_NeverBothSet ==
    \A i \in 1..Len(requests) : ~BothSet(requests[i])

\* C6 as amended: no search request of a run with get_latest or
\* get_after_least set has both bounds set; every search request of a run
\* with neither set carries both, GRAB_AFTER and GRAB_BEFORE.
C6_BothSetOnlyInitial ==
    \A i \in 1..Len(requests) :
        IF Initial(get_after_least, get_latest)
        THEN requests[i].after = GRAB_AFTER /\ requests[i].before = GRAB_BEFORE
        ELSE ~BothSet(requests[i])

\* a backfill run on its second page, after an initial run that sent requests
C6_Witness ==
    /\ ~Initial(get_after_least, get_latest)
    /\ Len(requests) >= 2
    /\ Initial(prev.get_after_least, prev.get_latest)
    /\ prev.first # None

-----------------------------------------------------------------------------
(* C7 *)

\* C7: a run started on a directory without any file does not fail in the
\* checkpoint scan, whatever its flags, and its search requests carry the
\* default window GRAB_AFTER / GRAB_BEFORE.
C7_FirstRunUsesDefaults ==
    (runs > 0 /\ dirAtStart = {}) =>
        /\ exc \notin {"TypeError", "ValueError"}
        /\ \A i \in 1..Len(requests) :
              requests[i].after = GRAB_AFTER /\ requests[i].before = GRAB_BEFORE

-----------------------------------------------------------------------------
(* C8 *)

\* the scanned bounds of directory d cover every video of the channel
Covers(d, ch) ==
    /\ ~ScanRaises(d)
    /\ get_extreme_video_date(d) # None
    /\ \A v \in Videos :
          /\ get_extreme_video_date(d)[1].oldest <= ch[v].publishedAt
          /\ ch[v].publishedAt <= get_extreme_video_date(d)[1].last

\* a run that completed right after a completed run with the same flags, the
\* client raising no error in either
SecondOfTwo ==
    /\ pc = "done"
    /\ fault = None
    /\ prev.end = "done"
    /\ prev.clean
    /\ prev.get_latest = get_latest
    /\ prev.get_after_least = get_after_least

-----------------------------------------------------------------------------
(* C9 *)

\* C9: a run lists the caption tracks of (and so downloads captions for) no
\* video whose file was in the directory when the run started.
C9_NoRefetch ==
    \A v \in listed : FileOf(channel, v) \notin dirAtStart

-----------------------------------------------------------------------------
(* C10 *)

\* C10: a run started on a directory that holds a .csv file whose name does
\* not begin with a timestamp is not ended by the checkpoint scan: the scan
\* raises nothing, and the bounds the run sends are those of the well-formed
\* names.
C10_ScanSkipsBadNames ==
    (runs > 0 /\ ScanRaises(dirAtStart)) => exc # "ValueError"

-----------------------------------------------------------------------------
(* C11 *)

\* C11: for every set of videos the crawler persisted, each under the file
\* name of line 139 (the video id may hold underscores), the scan raises
\* nothing and returns None when the set is empty, and otherwise the dict
\* whose "oldest" is the least and whose "last" is the greatest of the
\* videos' upload instants.
C11_ScanExtremes ==
    (unit.fn = "scan" /\ unit.done) =>
        /\ unit.raised = ""
        /\ IF unit.arg = {}
           THEN unit.ret = None
           ELSE unit.ret =
                  << [last |-> Max({p.uploaded : p \in unit.arg}),
                      oldest |-> Min({p.uploaded : p \in unit.arg})] >>

\* a scan of three files, one of a video whose id holds an underscore, two of
\* the same day at different times
C11_Witness ==
    /\ unit.fn = "scan"
    /\ unit.done
    /\ Cardinality(DirOf(unit.arg)) = 3
    /\ \E p \in unit.arg : Len(p.video_id) > 1
    /\ \E p, q \in unit.arg :
          /\ p.uploaded # q.uploaded
          /\ StrfStamp(p.uploaded)[1] = StrfStamp(q.uploaded)[1]
    /\ unit.ret[1].oldest < unit.ret[1].last

-----------------------------------------------------------------------------
(* C12 *)

\* a block of the form the claims call well-formed: an index line, a timing
\* line "<start> --> <end>" and one text line, and nothing else
WellFormed(block) ==
    /\ Len(block) = 3
    /\ block[1].tail # "" /\ block[1].raw = block[1].tail
    /\ block[2].timing # <<>>

\* the line a well-formed block stands for
LineOf(block) ==
    [idx |-> block[1].raw, start |-> block[2].timing[1],
     end |-> block[2].timing[2], text |-> block[3].raw]

RECURSIVE LinesFrom(_, _)
\* the lines of the well-formed blocks from the i-th on, in payload order
LinesFrom(blocks, i) ==
    IF i > Len(blocks) THEN <<>>
    ELSE IF WellFormed(blocks[i])
         THEN <<LineOf(blocks[i])>> \o LinesFrom(blocks, i + 1)
         ELSE LinesFrom(blocks, i + 1)

\* C12: for every payload the parser returns exactly the lines of the
\* well-formed blocks, one per block, in the order of the blocks, and nothing
\* for any other block; the empty payload gives the empty sequence.
C12_OneLinePerWellFormedBlock ==
    (unit.fn = "parse" /\ unit.done) =>
        /\ unit.raised = ""
        /\ unit.ret = LinesFrom(unit.arg, 1)

-----------------------------------------------------------------------------
(* C16 *)

\* a caption of several text lines: an index line, a timing line and two or
\* more lines of text
MultiText(block) ==
    /\ Len(block) >= 4
    /\ block[1].tail # "" /\ block[1].raw = block[1].tail
    /\ block[2].timing # <<>>
    /\ \A j \in 3..Len(block) : block[j].timing = <<>>

\* C16: the parse of a payload never raises, and a block with two or more
\* text lines contributes no line to the result: no returned line carries the
\* index of such a block.
C16_MultiLineSkipped ==
    (unit.fn = "parse" /\ unit.done) =>
        /\ unit.raised = ""
        /\ \A i \in 1..Len(unit.arg) :
              MultiText(unit.arg[i]) =>
                  \A j \in 1..Len(unit.ret) :
                      unit.ret[j].idx # unit.arg[i][1].raw

-----------------------------------------------------------------------------
(* C13 *)

\* C13: every search request of a run carries the publishedAfter and the
\* publishedBefore of the run's first request.
C13_WindowFixedPerRun ==
    \A i \in 1..Len(requests) :
        /\ requests[i].after = requests[1].after
        /\ requests[i].before = requests[1].before

-----------------------------------------------------------------------------
(* C14 *)

\* the item the per-item loop stands at: while its tracks are listed, its
\* track downloaded or its file written, the video in flight
InFlight(v) == idx <= Len(response.items) /\ response.items[idx] = v

\* C14: records are flushed per video.  At every point of a run, also when
\* it is interrupted or raises, every video whose tracks the run has listed,
\* for which get_asr_caption_id returned an id and get_subtitles at least
\* one line, and that is not the video in flight, has its file in the
\* directory; so the file of item i is there before the tracks of item i+1
\* are listed and the files of a page before the next page is requested.
C14_FlushedPerVideo ==
    \A v \in listed :
        (v \in gotAsr /\ v \in gotLines /\ ~InFlight(v)) =>
            /\ FileOf(channel, v) \in written
            /\ FileOf(channel, v) \in dir

\* the run was interrupted with the second page's first video in flight, its
\* lines downloaded and not yet written, the files of the first page on disk
C14_Witness ==
    /\ pc = "interrupted"
    /\ Len(requests) = 2
    /\ Cardinality(written) = PageSize
    /\ \E v \in gotLines : InFlight(v) /\ FileOf(channel, v) \notin dir

-----------------------------------------------------------------------------
(* C15 *)

\* C15: on every chain of pages the run ends without an exception after it
\* has requested each page of the chain once, in chain order: the first
\* with no pageToken, the k-th with the cursor the page before carried.
C15_EveryPageOnce ==
    (unit.fn = "paginate" /\ unit.done) =>
        /\ unit.raised = ""
        /\ Len(unit.ret) = unit.arg
        /\ \A k \in 1..Len(unit.ret) :
              unit.ret[k] = IF k = 1 THEN None ELSE <<k>>

-----------------------------------------------------------------------------
(* C17 *)

\* C17: for every listing, get_asr_caption_id returns None when the listing
\* is empty or holds no ASR track, and otherwise the id of the first track in
\* list order whose kind is ASR; it never returns the id of another track.
C17_FirstAsrTrack ==
    (unit.fn = "pick" /\ unit.done) =>
        LET asr == {i \in 1..Len(unit.arg) : unit.arg[i].trackKind = "ASR"}
        IN /\ unit.raised = ""
           /\ IF asr = {}
              THEN unit.ret = None
              ELSE unit.ret = <<unit.arg[Min(asr)].id>>

\* a listing with a track of another kind first and two ASR tracks after it
C17_Witness ==
    /\ unit.fn = "pick"
    /\ unit.done
    /\ Len(unit.arg) = 3
    /\ unit.arg[1].trackKind # "ASR"
    /\ unit.arg[2].trackKind = "ASR"
    /\ unit.arg[3].trackKind = "ASR"
    /\ unit.ret = <<unit.arg[2].id>>

-----------------------------------------------------------------------------
(* C18 *)

\* C18: in a run with both get_latest and get_after_least set, every search
\* request carries publishedBefore = the oldest timestamp scanned from the
\* directory as it is when the request is sent, and no publishedAfter.
C18_BackfillWins ==
    [][(Len(requests') = Len(requests) + 1 /\ get_latest /\ get_after_least) =>
        LET r == requests'[Len(requests')]
            scanned == get_extreme_video_date(dir)
        IN /\ scanned # None
           /\ r.before = StrfRfc(scanned[1].oldest)
           /\ r.after = None]_vars

\* a run with both flags set has sent a request, over a directory whose
\* oldest and latest timestamps differ
C18_Witness ==
    /\ get_latest
    /\ get_after_least
    /\ requests # <<>>
    /\ ~ScanRaises(dirAtStart)
    /\ get_extreme_video_date(dirAtStart) # None
    /\ get_extreme_video_date(dirAtStart)[1].oldest
          < get_extreme_video_date(dirAtStart)[1].last

-----------------------------------------------------------------------------
(* C19 *)

\* C19: a run only adds files to the directory, and from one search request
\* of a run to the next publishedBefore does not grow in a backfill run and
\* publishedAfter does not shrink in a catch-up run.
C19_BoundMovesOneWay ==
    /\ [][runs' = runs => dir \subseteq dir']_vars
    /\ [](\A i \in 1..(Len(requests) - 1) :
            /\ Backfill(get_after_least, get_latest) =>
                  RfcInstant(requests[i + 1].before)
                     <= RfcInstant(requests[i].before)
            /\ CatchUp(get_after_least, get_latest) =>
                  RfcInstant(requests[i + 1].after)
                     >= RfcInstant(requests[i].after))

\* a backfill run whose second request has an earlier publishedBefore than
\* its first, two files written in between
C19_Witness ==
    /\ Backfill(get_after_least, get_latest)
    /\ Len(requests) = 2
    /\ RfcInstant(requests[2].before) < RfcInstant(requests[1].before)
    /\ Cardinality(written) = 2

-----------------------------------------------------------------------------
(* C20 *)

\* id is the id of a track of video v that the client reports as ASR
IsAsrTrackOf(id, v) ==
    \E i \in 1..Len(CaptionsList(channel, v)) :
        /\ CaptionsList(channel, v)[i].id = id
        /\ CaptionsList(channel, v)[i].trackKind = "ASR"

\* C20: the calls made for the items of a run's pages.  Each listing is for
\* the item the loop stands at and is the only one for it: the loop then
\* moves to the next item (no ASR track), to the download (an id came back)
\* or the run ends with the error.  Each download is for the item whose
\* listing just returned an id, for that id, the id of an ASR track of the
\* item, and is the only one for it.  A file is written only for the item
\* whose download has returned lines.  So a run has listed every video once
\* and downloaded for no more videos than gave an ASR id.
C20_ItemProtocol ==
    /\ [][(runs' = runs /\ calls'.list # calls.list) =>
            /\ calls'.list = calls.list + 1
            /\ pc = "item" /\ idx <= Len(response.items)
            /\ \/ pc' = "item" /\ idx' = idx + 1 /\ asr_caption_id' = None
               \/ pc' = "download" /\ idx' = idx /\ asr_caption_id' # None
               \/ pc' = "raised"]_vars
    /\ [][(runs' = runs /\ calls'.download # calls.download) =>
            /\ calls'.download = calls.download + 1
            /\ pc = "download"
            /\ Item \in listed
            /\ asr_caption_id # None
            /\ IsAsrTrackOf(asr_caption_id[1], Item)
            /\ \/ pc' = "save" /\ idx' = idx
               \/ pc' = "raised"]_vars
    /\ [][(runs' = runs /\ written' # written) =>
            /\ pc = "save"
            /\ Item \in gotLines
            /\ calls.download >= 1
            /\ written' = written \cup {FileOf(channel, Item)}
            /\ calls' = calls
            /\ pc' = "item" /\ idx' = idx + 1]_vars
    /\ [](/\ calls.list = Cardinality(listed)
          /\ calls.download <= Cardinality(gotAsr)
          /\ gotLines \subseteq gotAsr
          /\ gotAsr \subseteq listed
          /\ pc = "done" =>
                /\ calls.list = Cardinality(seen)
                /\ fault = None => calls.download = Cardinality(gotAsr))

\* a completed run that listed every video of the channel on two pages,
\* downloaded for some of them and not for others, and wrote a file
C20_Witness ==
    /\ pc = "done"
    /\ Len(requests) = 2
    /\ calls.list = NumVideos
    /\ calls.download >= 1
    /\ calls.download < calls.list
    /\ written # {}

====
